---- MODULE Spec2Model ----
(***************************************************************************)
(* Buffer pool manager instance and LRU-K replacer of BusTub.              *)
(*   src/src/buffer/buffer_pool_manager_instance.cpp                       *)
(*   src/src/buffer/lru_k_replacer.cpp                                     *)
(* A frame record (Page) is modelled with its four members; the PAGE_SIZE  *)
(* byte buffer is one value of Bytes, Zero standing for the all-zero       *)
(* buffer that ResetMemory leaves.                                         *)
(***************************************************************************)
EXTENDS Integers, Sequences, FiniteSets, TLC

\* ------------------------------------------------------------------ bounds
PoolSize == 2      \* pool_size of the pool under Spec
NumFrames == 2     \* num_frames of the stand-alone replacer under ReplSpec
MaxK == 2          \* replacer_k: MaxK for the pool, 1..MaxK stand-alone
MaxPage == 1       \* AllocatePage hands out 0..MaxPage; callers name -1..MaxPage
MaxByte == 1       \* a byte buffer is a value in 0..MaxByte
MaxPin == 2        \* at most MaxPin successful acquisitions per residency
MaxClock == 6      \* operations start only while clock_ < MaxClock
MaxReplClock == 7  \* the same cap for the stand-alone replacer
NumThreads == 2    \* threads calling into the pool under LatchSpec
MaxFlushClock == 4 \* the clock cap while a FlushPgImp runs beside the callers

\* --------------------------------------------------------- program constants
INVALID_PAGE_ID == -1
NoFrame == -1      \* frame_id_t frame_id = -1; also stands for a nullptr result

Zero == 0
Bytes == 0..MaxByte
Frames == 0..(PoolSize - 1)
PageIds == 0..MaxPage
PageArgs == {INVALID_PAGE_ID} \cup PageIds

VARIABLES
  pages_,         \* Page pages_[pool_size_]: page_id_, pin_count_, is_dirty_, data_
  page_table_,    \* std::unordered_map<page_id_t, frame_id_t>
  free_list_,     \* std::list<frame_id_t>
  next_page_id_,  \* the local allocation counter
  replacer_,      \* the LRUKReplacer object
  disk,           \* the DiskManager's pages: bytes, or Unwritten
  oob,            \* TRUE once pages_[-1] has been dereferenced
  last,           \* the call that produced this state, with what it returned
  acquired,       \* per frame: successful NewPage/FetchPage of this residency
  released,       \* per frame: successful UnpinPage of this residency
  mon,            \* per page: progress of the round trip New/Unpin(dirty)/persist
  latch_,         \* std::mutex latch_ of the pool: the thread holding it, or NoThread
  replacer_latch_, \* std::mutex latch_ of the replacer: its holder, or NoThread
  pc,             \* per thread: the latch steps left in the call it is making
  flush           \* the locals of a FlushPgImp that runs beside the other calls

vars == <<pages_, page_table_, free_list_, next_page_id_, replacer_, disk, oob,
          last, acquired, released, mon, latch_, replacer_latch_, pc, flush>>

\* What the threads' positions and the latches are made of.
conc == <<latch_, replacer_latch_, pc, flush>>

NoThread == 0
Threads == 1..NumThreads

\* No FlushPgImp is under way.
FlushIdle == [at |-> "idle", page_id |-> INVALID_PAGE_ID, frame_id |-> NoFrame]

Unwritten == -1

\* ------------------------------------------------------- std::unordered_map
Erase(m, key) == [x \in DOMAIN m \ {key} |-> m[x]]

Put(m, key, v) == [x \in DOMAIN m \cup {key} |-> IF x = key THEN v ELSE m[x]]

\* emplace inserts only when the key is absent
Emplace(m, key, v) == IF key \in DOMAIN m THEN m ELSE Put(m, key, v)

EmptyMap == [x \in {} |-> 0]

\* The iteration orders a range-for over an unordered_map with keys S may take.
Perms(S) == {s \in [1..Cardinality(S) -> S] : \A i, j \in 1..Cardinality(S) : i # j => s[i] # s[j]}

\* ------------------------------------------------------------- LRUKReplacer
NewReplacer(num_frames, k) ==
  [preliminary_queue_ |-> EmptyMap, lru_cache_queue_ |-> EmptyMap,
   evictable_ |-> {}, clock_ |-> 0, replacer_size_ |-> num_frames, k_ |-> k]

\* ScanStep without the can_evict test: the oldest tracked frame wins.
ScanStepIgnoresEvictable(acc, f, queue, ev) ==
  LET oldest_time == Head(queue[f])
  IN IF oldest_time < acc.reference_clock
     THEN [frame_id |-> f, reference_clock |-> oldest_time]
     ELSE acc

\* ScanStep without "reference_clock = oldest_time": any later evictable frame wins.
ScanStepKeepsClock(acc, f, queue, ev) ==
  LET can_evict == f \in ev
      oldest_time == Head(queue[f])
  IN IF can_evict /\ oldest_time < acc.reference_clock
     THEN [frame_id |-> f, reference_clock |-> acc.reference_clock]
     ELSE acc

\* One iteration of either scan loop of Evict.
ScanStep(acc, f, queue, ev) ==
  LET can_evict == f \in ev
      oldest_time == Head(queue[f])
  IN IF can_evict /\ oldest_time < acc.reference_clock
     THEN [frame_id |-> f, reference_clock |-> oldest_time]
     ELSE acc

RECURSIVE Scan(_, _, _, _)
Scan(acc, ord, queue, ev) ==
  IF ord = <<>> THEN acc
  ELSE Scan(ScanStep(acc, Head(ord), queue, ev), Tail(ord), queue, ev)

\* Evict, the two maps being iterated in the orders o1 and o2.
Evict(r, o1, o2) ==
  LET clock1 == r.clock_ + 1
      r1 == [r EXCEPT !.clock_ = clock1]
      a1 == Scan([frame_id |-> NoFrame, reference_clock |-> clock1], o1,
                 r.preliminary_queue_, r.evictable_)
      a2 == Scan(a1, o2, r.lru_cache_queue_, r.evictable_)
  IN IF DOMAIN r.preliminary_queue_ = {} /\ DOMAIN r.lru_cache_queue_ = {}
     THEN [ok |-> FALSE, frame_id |-> NoFrame, r |-> r1]
     ELSE IF a1.frame_id \in DOMAIN r.preliminary_queue_
     THEN [ok |-> TRUE, frame_id |-> a1.frame_id,
           r |-> [r1 EXCEPT !.preliminary_queue_ = Erase(@, a1.frame_id),
                            !.evictable_ = @ \ {a1.frame_id}]]
     ELSE IF a2.frame_id # NoFrame
     THEN [ok |-> TRUE, frame_id |-> a2.frame_id,
           r |-> [r1 EXCEPT !.lru_cache_queue_ = Erase(@, a2.frame_id),
                            !.evictable_ = @ \ {a2.frame_id}]]
     ELSE [ok |-> FALSE, frame_id |-> NoFrame, r |-> r1]

\* The range check at the head of RecordAccess.
RecordAccessRejects(r, frame_id) == frame_id >= r.replacer_size_ \/ frame_id = -1

\* RecordAccess with access_history.pop_front() forgotten.
RecordAccessKeepsOldest(r, frame_id) ==
  IF RecordAccessRejects(r, frame_id) THEN r
  ELSE IF frame_id \in DOMAIN r.lru_cache_queue_
  THEN [r EXCEPT !.lru_cache_queue_ =
                   Put(@, frame_id, Append(@[frame_id], r.clock_)),
                 !.clock_ = @ + 1]
  ELSE LET old == IF frame_id \in DOMAIN r.preliminary_queue_
                  THEN r.preliminary_queue_[frame_id] ELSE <<>>
           access_history == Append(old, r.clock_)
       IN IF Len(access_history) >= r.k_
          THEN [r EXCEPT !.lru_cache_queue_ = Put(@, frame_id, access_history),
                         !.preliminary_queue_ = Erase(@, frame_id),
                         !.clock_ = @ + 1]
          ELSE [r EXCEPT !.preliminary_queue_ = Put(@, frame_id, access_history),
                         !.clock_ = @ + 1]

RecordAccess(r, frame_id) ==
  IF RecordAccessRejects(r, frame_id) THEN r
  ELSE IF frame_id \in DOMAIN r.lru_cache_queue_
  THEN [r EXCEPT !.lru_cache_queue_ =
                   Put(@, frame_id, Append(Tail(@[frame_id]), r.clock_)),
                 !.clock_ = @ + 1]
  ELSE LET old == IF frame_id \in DOMAIN r.preliminary_queue_
                  THEN r.preliminary_queue_[frame_id] ELSE <<>>
           access_history == Append(old, r.clock_)
       IN IF Len(access_history) >= r.k_
          THEN [r EXCEPT !.lru_cache_queue_ = Put(@, frame_id, access_history),
                         !.preliminary_queue_ = Erase(@, frame_id),
                         !.clock_ = @ + 1]
          ELSE [r EXCEPT !.preliminary_queue_ = Put(@, frame_id, access_history),
                         !.clock_ = @ + 1]

\* SetEvictable without the test that the frame is tracked.
SetEvictableUntracked(r, frame_id, set_evictable) ==
  IF set_evictable
  THEN [r EXCEPT !.clock_ = @ + 1, !.evictable_ = @ \cup {frame_id}]
  ELSE [r EXCEPT !.clock_ = @ + 1, !.evictable_ = @ \ {frame_id}]

SetEvictable(r, frame_id, set_evictable) ==
  LET r1 == [r EXCEPT !.clock_ = @ + 1]
  IN IF frame_id \notin DOMAIN r.preliminary_queue_ /\ frame_id \notin DOMAIN r.lru_cache_queue_
     THEN r1
     ELSE IF set_evictable
     THEN [r1 EXCEPT !.evictable_ = @ \cup {frame_id}]
     ELSE [r1 EXCEPT !.evictable_ = @ \ {frame_id}]

\* Remove with the two history erasures forgotten.
RemoveKeepsHistory(r, frame_id) ==
  [r EXCEPT !.clock_ = @ + 1, !.evictable_ = @ \ {frame_id}]

Remove(r, frame_id) ==
  [r EXCEPT !.clock_ = @ + 1,
            !.preliminary_queue_ = Erase(@, frame_id),
            !.lru_cache_queue_ = Erase(@, frame_id),
            !.evictable_ = @ \ {frame_id}]

Size(r) == Cardinality(r.evictable_)


\* ------------------------------------------------------------- DiskManager
\* WritePage(page_id, data): the bytes are persisted.
WritePage(d, page_id, data) == [d EXCEPT ![page_id] = data]

\* ReadPage(page_id, out): the values the buffer may hold afterwards; a page that
\* was never written yields unspecified bytes.
ReadPage(d, page_id) == IF d[page_id] = Unwritten THEN Bytes ELSE {d[page_id]}

\* ------------------------------------------------ BufferPoolManagerInstance
\* NewPage_ with the dirty bit left set.
NewPageDirty_(page_id) ==
  [page_id_ |-> page_id, pin_count_ |-> 0, is_dirty_ |-> TRUE, data_ |-> Zero]

\* A Page as its constructor leaves it.
NewPage_(page_id) ==
  [page_id_ |-> page_id, pin_count_ |-> 0, is_dirty_ |-> FALSE, data_ |-> Zero]

\* NumFreePages counting every frame, pinned or not.
NumFreePagesCountsPinned(pages) == Cardinality(Frames)

\* The counting loop that opens NewPgImp and the miss path of FetchPgImp.
NumFreePages(pages) == Cardinality({i \in Frames : pages[i].pin_count_ = 0})

\* EvictWritesBack with the write-back forgotten.
EvictWritesBackNever(evicted_page) == FALSE

\* EvictWritesBack with the IsDirty test dropped.
EvictWritesBackAlways(evicted_page) == TRUE

\* The test that guards the write-back of an evicted page.
EvictWritesBack(evicted_page) == evicted_page.is_dirty_

\* Frame selection shared by NewPgImp and FetchPgImp: the free list first, else
\* Evict with write-back of a dirty victim, ResetMemory and page-table erase.
\* frame_id = NoFrame reports that Evict found nothing and pages_[-1] is used.
AcquireFrame(o1, o2) ==
  IF free_list_ # <<>>
  THEN [frame_id |-> Head(free_list_), free_list |-> Tail(free_list_),
        replacer |-> replacer_, pages |-> pages_, page_table |-> page_table_,
        disk |-> disk, writes |-> <<>>, evict_called |-> FALSE,
        evicted_page_id |-> INVALID_PAGE_ID, victim_dirty |-> FALSE]
  ELSE LET e == Evict(replacer_, o1, o2)
           frame_id == e.frame_id
       IN IF frame_id = NoFrame
          THEN [frame_id |-> NoFrame, free_list |-> free_list_,
                replacer |-> e.r, pages |-> pages_, page_table |-> page_table_,
                disk |-> disk, writes |-> <<>>, evict_called |-> TRUE,
                evicted_page_id |-> INVALID_PAGE_ID, victim_dirty |-> FALSE]
          ELSE LET evicted_page == pages_[frame_id]
                   evicted_page_id == evicted_page.page_id_
                   wb == EvictWritesBack(evicted_page)
               IN [frame_id |-> frame_id, free_list |-> free_list_,
                   replacer |-> e.r,
                   pages |-> [pages_ EXCEPT ![frame_id] =
                                [@ EXCEPT !.is_dirty_ = IF wb THEN FALSE ELSE @,
                                          !.data_ = Zero]],
                   page_table |-> Erase(page_table_, evicted_page_id),
                   disk |-> IF wb THEN WritePage(disk, evicted_page_id, evicted_page.data_)
                            ELSE disk,
                   writes |-> IF wb THEN <<<<evicted_page_id, evicted_page.data_>>>>
                              ELSE <<>>,
                   evict_called |-> TRUE,
                   evicted_page_id |-> evicted_page_id,
                   victim_dirty |-> evicted_page.is_dirty_]

\* The record of a call: its arguments, what it returned and what it did.
NoCall ==
  [op |-> "none", page_id |-> INVALID_PAGE_ID, is_dirty |-> FALSE,
   page |-> NoFrame, ok |-> FALSE, hit |-> FALSE, evict_called |-> FALSE,
   victim |-> NoFrame, evicted_page_id |-> INVALID_PAGE_ID,
   victim_dirty |-> FALSE, writes |-> <<>>]

MonNone == [st |-> "none", f |-> NoFrame, B |-> Zero]

\* Progress of the round trip of each page after the call c, made in the
\* current state: created by NewPage ("new"), then UnpinPage(p, true)
\* ("unpinned", B the bytes in the frame NewPage returned), then evicted or
\* flushed ("persisted").  Any other call on the page ends the round trip.
MonAfter(c) ==
  [p \in PageIds |->
    LET m == mon[p] IN
    IF c.op = "NewPage" /\ c.page # NoFrame /\ c.page_id = p
      THEN [st |-> "new", f |-> c.page, B |-> Zero]
    ELSE IF c.op = "FetchPage" /\ c.page # NoFrame /\ c.page_id = p
      THEN MonNone
    ELSE IF c.op \in {"NewPage", "FetchPage"} /\ c.page # NoFrame
            /\ c.evict_called /\ c.evicted_page_id = p
      THEN IF m.st \in {"unpinned", "persisted"}
           THEN [m EXCEPT !.st = "persisted"] ELSE MonNone
    ELSE IF c.op = "UnpinPage" /\ c.ok /\ c.page_id = p
      THEN IF m.st = "new" /\ c.is_dirty
           THEN [st |-> "unpinned", f |-> m.f, B |-> pages_[m.f].data_]
           ELSE MonNone
    ELSE IF c.op \in {"FlushPage", "FlushAllPages"}
            /\ \E i \in 1..Len(c.writes) : c.writes[i][1] = p
      THEN IF m.st = "unpinned" THEN [m EXCEPT !.st = "persisted"] ELSE m
    ELSE IF c.op = "DeletePage" /\ c.ok /\ c.page_id = p /\ c.page # NoFrame
      THEN MonNone
    ELSE IF c.op = "WriteData" /\ pages_[c.page].page_id_ = p
            /\ ~(m.st = "new" /\ m.f = c.page)
      THEN MonNone
    ELSE m]

NewPgImp ==
  /\ ~oob
  /\ UNCHANGED conc
  /\ IF NumFreePages(pages_) = 0
     THEN /\ last' = [NoCall EXCEPT !.op = "NewPage"]
          /\ UNCHANGED <<pages_, page_table_, free_list_, next_page_id_, replacer_,
                         disk, oob, acquired, released, mon>>
     ELSE /\ next_page_id_ <= MaxPage
          /\ replacer_.clock_ < MaxClock
          /\ \E o1 \in Perms(DOMAIN replacer_.preliminary_queue_),
                o2 \in Perms(DOMAIN replacer_.lru_cache_queue_) :
               LET page_id == next_page_id_
                   a == AcquireFrame(o1, o2)
                   frame_id == a.frame_id
                   c == [NoCall EXCEPT !.op = "NewPage", !.page_id = page_id,
                           !.page = frame_id, !.evict_called = a.evict_called,
                           !.victim = IF a.evict_called THEN frame_id ELSE NoFrame,
                           !.evicted_page_id = a.evicted_page_id,
                           !.victim_dirty = a.victim_dirty, !.writes = a.writes]
               IN /\ next_page_id_' = next_page_id_ + 1
                  /\ last' = c
                  /\ IF frame_id = NoFrame
                     THEN /\ oob' = TRUE
                          /\ replacer_' = a.replacer
                          /\ UNCHANGED <<pages_, page_table_, free_list_, disk,
                                         acquired, released, mon>>
                     ELSE /\ page_table_' = Emplace(a.page_table, page_id, frame_id)
                          /\ pages_' = [a.pages EXCEPT ![frame_id] =
                                          [@ EXCEPT !.page_id_ = page_id, !.pin_count_ = 1]]
                          /\ free_list_' = a.free_list
                          /\ disk' = a.disk
                          /\ replacer_' = SetEvictable(RecordAccess(a.replacer, frame_id),
                                                       frame_id, FALSE)
                          /\ acquired' = [acquired EXCEPT ![frame_id] = 1]
                          /\ released' = [released EXCEPT ![frame_id] = 0]
                          /\ mon' = MonAfter(c)
                          /\ UNCHANGED oob

FetchPgImp(page_id) ==
  /\ ~oob
  /\ UNCHANGED conc
  /\ IF page_id \in DOMAIN page_table_
     THEN LET frame_id == page_table_[page_id]
              c == [NoCall EXCEPT !.op = "FetchPage", !.page_id = page_id,
                      !.page = frame_id, !.hit = TRUE]
          IN /\ replacer_.clock_ < MaxClock
             /\ acquired[frame_id] < MaxPin
             /\ pages_' = [pages_ EXCEPT ![frame_id].pin_count_ = @ + 1]
             /\ replacer_' = SetEvictable(RecordAccess(replacer_, frame_id), frame_id, FALSE)
             /\ last' = c
             /\ acquired' = [acquired EXCEPT ![frame_id] = @ + 1]
             /\ mon' = MonAfter(c)
             /\ UNCHANGED <<page_table_, free_list_, next_page_id_, disk, oob, released>>
     ELSE IF NumFreePages(pages_) = 0
     THEN /\ last' = [NoCall EXCEPT !.op = "FetchPage", !.page_id = page_id]
          /\ UNCHANGED <<pages_, page_table_, free_list_, next_page_id_, replacer_,
                         disk, oob, acquired, released, mon>>
     ELSE /\ replacer_.clock_ < MaxClock
          /\ \E o1 \in Perms(DOMAIN replacer_.preliminary_queue_),
                o2 \in Perms(DOMAIN replacer_.lru_cache_queue_) :
               LET a == AcquireFrame(o1, o2)
                   frame_id == a.frame_id
                   c == [NoCall EXCEPT !.op = "FetchPage", !.page_id = page_id,
                           !.page = frame_id, !.evict_called = a.evict_called,
                           !.victim = IF a.evict_called THEN frame_id ELSE NoFrame,
                           !.evicted_page_id = a.evicted_page_id,
                           !.victim_dirty = a.victim_dirty, !.writes = a.writes]
               IN /\ last' = c
                  /\ IF frame_id = NoFrame
                     THEN /\ oob' = TRUE
                          /\ replacer_' = a.replacer
                          /\ UNCHANGED <<pages_, page_table_, free_list_, next_page_id_,
                                         disk, acquired, released, mon>>
                     ELSE /\ \E b \in ReadPage(a.disk, page_id) :
                               pages_' = [a.pages EXCEPT ![frame_id] =
                                            [@ EXCEPT !.page_id_ = page_id,
                                                      !.pin_count_ = 1, !.data_ = b]]
                          /\ page_table_' = Emplace(a.page_table, page_id, frame_id)
                          /\ free_list_' = a.free_list
                          /\ disk' = a.disk
                          /\ replacer_' = SetEvictable(RecordAccess(a.replacer, frame_id),
                                                       frame_id, FALSE)
                          /\ acquired' = [acquired EXCEPT ![frame_id] = 1]
                          /\ released' = [released EXCEPT ![frame_id] = 0]
                          /\ mon' = MonAfter(c)
                          /\ UNCHANGED <<next_page_id_, oob>>

\* UnpinRefuses with < for <=.
UnpinRefusesNegative(page) == page.pin_count_ < 0

\* if (page->GetPinCount() <= 0) return false;
UnpinRefuses(page) == page.pin_count_ <= 0

\* UnpinDirty as the plain assignment page->is_dirty_ = is_dirty.
UnpinDirtyAssign(old, is_dirty) == is_dirty

\* if (is_dirty) page->is_dirty_ = is_dirty;
UnpinDirty(old, is_dirty) == IF is_dirty THEN is_dirty ELSE old

\* UnpinMarks with the SetEvictable call forgotten.
UnpinMarksNever(r, frame_id, pin_count) == r

\* if (page->pin_count_ == 0) replacer_->SetEvictable(frame_id, true);
UnpinMarks(r, frame_id, pin_count) ==
  IF pin_count = 0 THEN SetEvictable(r, frame_id, TRUE) ELSE r

UnpinPgImp(page_id, is_dirty) ==
  /\ ~oob
  /\ UNCHANGED conc
  /\ IF page_id \notin DOMAIN page_table_ \/ UnpinRefuses(pages_[page_table_[page_id]])
     THEN /\ last' = [NoCall EXCEPT !.op = "UnpinPage", !.page_id = page_id,
                            !.is_dirty = is_dirty]
          /\ UNCHANGED <<pages_, page_table_, free_list_, next_page_id_, replacer_,
                         disk, oob, acquired, released, mon>>
     ELSE LET frame_id == page_table_[page_id]
              c == [NoCall EXCEPT !.op = "UnpinPage", !.page_id = page_id,
                      !.is_dirty = is_dirty, !.ok = TRUE, !.page = frame_id]
          IN /\ replacer_.clock_ < MaxClock
             /\ pages_' = [pages_ EXCEPT ![frame_id] =
                             [@ EXCEPT !.is_dirty_ = UnpinDirty(@, is_dirty),
                                       !.pin_count_ = @ - 1]]
             /\ replacer_' = UnpinMarks(replacer_, frame_id, pages_'[frame_id].pin_count_)
             /\ last' = c
             /\ released' = [released EXCEPT ![frame_id] = @ + 1]
             /\ mon' = MonAfter(c)
             /\ UNCHANGED <<page_table_, free_list_, next_page_id_, disk, oob, acquired>>

\* Flush without the page_id == -1 test.
FlushAnyPageId(d, w, page_id) ==
  IF page_id \notin DOMAIN page_table_
  THEN [ok |-> FALSE, disk |-> d, writes |-> w]
  ELSE LET page == pages_[page_table_[page_id]]
       IN [ok |-> TRUE, disk |-> WritePage(d, page_id, page.data_),
           writes |-> Append(w, <<page_id, page.data_>>)]

\* FlushPgImp on the disk d, w being the WritePage calls issued so far.
Flush(d, w, page_id) ==
  IF page_id = -1 \/ page_id \notin DOMAIN page_table_
  THEN [ok |-> FALSE, disk |-> d, writes |-> w]
  ELSE LET page == pages_[page_table_[page_id]]
       IN [ok |-> TRUE, disk |-> WritePage(d, page_id, page.data_),
           writes |-> Append(w, <<page_id, page.data_>>)]

FlushPgImp(page_id) ==
  /\ ~oob
  /\ UNCHANGED conc
  /\ LET fl == Flush(disk, <<>>, page_id)
         c == [NoCall EXCEPT !.op = "FlushPage", !.page_id = page_id, !.ok = fl.ok,
                 !.page = IF fl.ok THEN page_table_[page_id] ELSE NoFrame,
                 !.writes = fl.writes]
     IN /\ disk' = fl.disk
        /\ last' = c
        /\ mon' = MonAfter(c)
        /\ UNCHANGED <<pages_, page_table_, free_list_, next_page_id_, replacer_,
                       oob, acquired, released>>

\* The loop of FlushAllPgsImp from frame_id on.
RECURSIVE FlushFrom(_, _, _)
FlushFrom(d, w, frame_id) ==
  IF frame_id >= PoolSize THEN [disk |-> d, writes |-> w]
  ELSE LET fl == Flush(d, w, pages_[frame_id].page_id_)
       IN FlushFrom(fl.disk, fl.writes, frame_id + 1)

FlushAllPgsImp ==
  /\ ~oob
  /\ UNCHANGED conc
  /\ LET fa == FlushFrom(disk, <<>>, 0)
         c == [NoCall EXCEPT !.op = "FlushAllPages", !.writes = fa.writes]
     IN /\ disk' = fa.disk
        /\ last' = c
        /\ mon' = MonAfter(c)
        /\ UNCHANGED <<pages_, page_table_, free_list_, next_page_id_, replacer_,
                       oob, acquired, released>>

\* DeleteReset with "is_dirty_ = false" forgotten.
DeleteResetKeepsDirty(page) ==
  [page EXCEPT !.data_ = Zero, !.page_id_ = INVALID_PAGE_ID, !.pin_count_ = 0]

\* The frame DeletePgImp leaves behind.
DeleteReset(page) ==
  [page EXCEPT !.data_ = Zero, !.page_id_ = INVALID_PAGE_ID, !.pin_count_ = 0,
               !.is_dirty_ = FALSE]

DeletePgImp(page_id) ==
  /\ ~oob
  /\ UNCHANGED conc
  /\ IF page_id \notin DOMAIN page_table_
     THEN /\ last' = [NoCall EXCEPT !.op = "DeletePage", !.page_id = page_id, !.ok = TRUE]
          /\ UNCHANGED <<pages_, page_table_, free_list_, next_page_id_, replacer_,
                         disk, oob, acquired, released, mon>>
     ELSE IF pages_[page_table_[page_id]].pin_count_ > 0
     THEN /\ last' = [NoCall EXCEPT !.op = "DeletePage", !.page_id = page_id]
          /\ UNCHANGED <<pages_, page_table_, free_list_, next_page_id_, replacer_,
                         disk, oob, acquired, released, mon>>
     ELSE LET frame_id == page_table_[page_id]
              c == [NoCall EXCEPT !.op = "DeletePage", !.page_id = page_id, !.ok = TRUE,
                      !.page = frame_id]
          IN /\ replacer_.clock_ < MaxClock
             /\ replacer_' = Remove(replacer_, frame_id)
             /\ pages_' = [pages_ EXCEPT ![frame_id] = DeleteReset(@)]
             /\ page_table_' = Erase(page_table_, page_id)
             /\ free_list_' = Append(free_list_, frame_id)
             /\ last' = c
             /\ acquired' = [acquired EXCEPT ![frame_id] = 0]
             /\ released' = [released EXCEPT ![frame_id] = 0]
             /\ mon' = MonAfter(c)
             /\ UNCHANGED <<next_page_id_, disk, oob>>

\* A holder of a pin writes the bytes b through Page::GetData().
WriteData(frame_id, b) ==
  /\ ~oob
  /\ UNCHANGED conc
  /\ pages_[frame_id].pin_count_ > 0
  /\ pages_[frame_id].data_ # b
  /\ LET c == [NoCall EXCEPT !.op = "WriteData", !.page = frame_id,
                 !.page_id = pages_[frame_id].page_id_]
     IN /\ pages_' = [pages_ EXCEPT ![frame_id].data_ = b]
        /\ last' = c
        /\ mon' = MonAfter(c)
        /\ UNCHANGED <<page_table_, free_list_, next_page_id_, replacer_, disk, oob,
                       acquired, released>>

\* The state the constructor leaves.
Init ==
  /\ pages_ = [i \in Frames |-> NewPage_(INVALID_PAGE_ID)]
  /\ page_table_ = EmptyMap
  /\ free_list_ = [i \in 1..PoolSize |-> i - 1]
  /\ next_page_id_ = 0
  /\ replacer_ = NewReplacer(PoolSize, MaxK)
  /\ disk = [p \in PageArgs |-> Unwritten]
  /\ oob = FALSE
  /\ last = NoCall
  /\ acquired = [i \in Frames |-> 0]
  /\ released = [i \in Frames |-> 0]
  /\ mon = [p \in PageIds |-> MonNone]
  /\ latch_ = NoThread
  /\ replacer_latch_ = NoThread
  /\ pc = [t \in Threads |-> <<>>]
  /\ flush = FlushIdle

Next ==
  \/ NewPgImp
  \/ \E page_id \in PageArgs : FetchPgImp(page_id)
  \/ \E page_id \in PageArgs, is_dirty \in BOOLEAN : UnpinPgImp(page_id, is_dirty)
  \/ \E page_id \in PageArgs : FlushPgImp(page_id)
  \/ FlushAllPgsImp
  \/ \E page_id \in PageArgs : DeletePgImp(page_id)
  \/ \E frame_id \in Frames, b \in Bytes : WriteData(frame_id, b)

Spec == Init /\ [][Next]_vars


\* ------------------------------------------- the replacer used on its own
\* Frame ids a caller of the replacer may pass: below, in and above the range.
FrameArgs == (0 - 2)..NumFrames

ReplRecordAccess(frame_id) ==
  /\ replacer_.clock_ < MaxReplClock
  /\ UNCHANGED conc
  /\ replacer_' = RecordAccess(replacer_, frame_id)
  /\ last' = [NoCall EXCEPT !.op = "RecordAccess", !.page = frame_id]
  /\ UNCHANGED <<pages_, page_table_, free_list_, next_page_id_, disk, oob,
                 acquired, released, mon>>

ReplSetEvictable(frame_id, set_evictable) ==
  /\ replacer_.clock_ < MaxReplClock
  /\ UNCHANGED conc
  /\ replacer_' = SetEvictable(replacer_, frame_id, set_evictable)
  /\ last' = [NoCall EXCEPT !.op = "SetEvictable", !.page = frame_id,
                !.is_dirty = set_evictable]
  /\ UNCHANGED <<pages_, page_table_, free_list_, next_page_id_, disk, oob,
                 acquired, released, mon>>

ReplRemove(frame_id) ==
  /\ replacer_.clock_ < MaxReplClock
  /\ UNCHANGED conc
  /\ replacer_' = Remove(replacer_, frame_id)
  /\ last' = [NoCall EXCEPT !.op = "Remove", !.page = frame_id]
  /\ UNCHANGED <<pages_, page_table_, free_list_, next_page_id_, disk, oob,
                 acquired, released, mon>>

ReplEvict ==
  /\ replacer_.clock_ < MaxReplClock
  /\ UNCHANGED conc
  /\ \E o1 \in Perms(DOMAIN replacer_.preliminary_queue_),
        o2 \in Perms(DOMAIN replacer_.lru_cache_queue_) :
       LET e == Evict(replacer_, o1, o2)
       IN /\ replacer_' = e.r
          /\ last' = [NoCall EXCEPT !.op = "Evict", !.ok = e.ok, !.victim = e.frame_id,
                        !.evict_called = TRUE]
  /\ UNCHANGED <<pages_, page_table_, free_list_, next_page_id_, disk, oob,
                 acquired, released, mon>>

\* LRUKReplacer(num_frames, k) for every k in 1..MaxK, beside an untouched pool.
ReplInit ==
  /\ pages_ = [i \in Frames |-> NewPage_(INVALID_PAGE_ID)]
  /\ page_table_ = EmptyMap
  /\ free_list_ = [i \in 1..PoolSize |-> i - 1]
  /\ next_page_id_ = 0
  /\ \E k \in 1..MaxK : replacer_ = NewReplacer(NumFrames, k)
  /\ disk = [p \in PageArgs |-> Unwritten]
  /\ oob = FALSE
  /\ last = NoCall
  /\ acquired = [i \in Frames |-> 0]
  /\ released = [i \in Frames |-> 0]
  /\ mon = [p \in PageIds |-> MonNone]
  /\ latch_ = NoThread
  /\ replacer_latch_ = NoThread
  /\ pc = [t \in Threads |-> <<>>]
  /\ flush = FlushIdle

ReplNext ==
  \/ \E frame_id \in FrameArgs : ReplRecordAccess(frame_id)
  \/ \E frame_id \in FrameArgs, set_evictable \in BOOLEAN :
       ReplSetEvictable(frame_id, set_evictable)
  \/ \E frame_id \in FrameArgs : ReplRemove(frame_id)
  \/ ReplEvict

ReplSpec == ReplInit /\ [][ReplNext]_vars


\* ------------------------------ FlushPgImp beside the calls that hold latch_
\* FlushPgImp takes no latch, so its look-up and its WritePage are separate
\* steps, between which the calls that hold latch_ run as a whole.

\* FlushPgImp up to "Page *page = &pages_[frame_id]".
FlushFind(page_id) ==
  /\ ~oob
  /\ flush.at = "idle"
  /\ IF page_id = -1 \/ page_id \notin DOMAIN page_table_
     THEN /\ last' = [NoCall EXCEPT !.op = "FlushPage", !.page_id = page_id]
          /\ UNCHANGED flush
     ELSE /\ flush' = [at |-> "found", page_id |-> page_id,
                       frame_id |-> page_table_[page_id]]
          /\ last' = [NoCall EXCEPT !.op = "FlushFind", !.page_id = page_id,
                        !.page = page_table_[page_id]]
  /\ UNCHANGED <<pages_, page_table_, free_list_, next_page_id_, replacer_, disk,
                 oob, acquired, released, mon, latch_, replacer_latch_, pc>>

\* disk_manager_->WritePage(page_id, page->GetData()); return true;
FlushWrite ==
  /\ ~oob
  /\ flush.at = "found"
  /\ LET page == pages_[flush.frame_id]
         c == [NoCall EXCEPT !.op = "FlushPage", !.page_id = flush.page_id,
                 !.ok = TRUE, !.page = flush.frame_id,
                 !.writes = << <<flush.page_id, page.data_>> >>]
     IN /\ disk' = WritePage(disk, flush.page_id, page.data_)
        /\ last' = c
        /\ mon' = MonAfter(c)
  /\ flush' = FlushIdle
  /\ UNCHANGED <<pages_, page_table_, free_list_, next_page_id_, replacer_, oob,
                 acquired, released, latch_, replacer_latch_, pc>>

\* The calls that hold latch_ from entry to return start only below this cap.
FlushCap == replacer_.clock_ < MaxFlushClock

\* The calls that hold latch_ run whole; so does the pin holder's write.
FlushNext ==
  \/ FlushCap /\ NewPgImp
  \/ FlushCap /\ \E page_id \in PageArgs : FetchPgImp(page_id)
  \/ FlushCap /\ \E page_id \in PageArgs, is_dirty \in BOOLEAN : UnpinPgImp(page_id, is_dirty)
  \/ FlushCap /\ FlushAllPgsImp
  \/ FlushCap /\ \E page_id \in PageArgs : DeletePgImp(page_id)
  \/ FlushCap /\ \E frame_id \in Frames, b \in Bytes : WriteData(frame_id, b)
  \/ \E page_id \in PageArgs : FlushFind(page_id)
  \/ FlushWrite

FlushSpec == Init /\ [][FlushNext]_vars


\* ------------------------------------------------------- latches and threads
\* A call is followed through its latch steps only: <<function, "lock">> is
\* the std::scoped_lock at the head of the function, <<function, "unlock">>
\* the release at its return, <<function, "run">> a function without a latch.
\* Which path a call takes depends on the pool's data; every path is allowed.
PoolFunctions ==
  {"NewPgImp", "FetchPgImp", "UnpinPgImp", "FlushPgImp", "FlushAllPgsImp", "DeletePgImp"}

ReplacerFunctions == {"Evict", "RecordAccess", "SetEvictable", "Remove"}

\* A member function of the replacer: it holds the replacer's latch_ throughout.
ReplacerCall(fn) == << <<fn, "lock">>, <<fn, "unlock">> >>

\* A member function of the pool that holds latch_ around the steps of body.
Locked(fn, body) == << <<fn, "lock">> >> \o body \o << <<fn, "unlock">> >>

\* FlushPgSteps as if FlushPgImp took latch_ like the other functions.
FlushPgStepsLocked == Locked("FlushPgImp", <<>>)

\* FlushPgImp: no latch is taken.
FlushPgSteps == << <<"FlushPgImp", "run">> >>

RECURSIVE Times(_, _)
Times(w, n) == IF n = 0 THEN <<>> ELSE w \o Times(w, n - 1)

\* The frame has been chosen: RecordAccess, then SetEvictable.
Installs == ReplacerCall("RecordAccess") \o ReplacerCall("SetEvictable")

\* The latch steps of each path through the function fn.
Paths(fn) ==
  CASE fn = "NewPgImp" ->
         {Locked(fn, <<>>), Locked(fn, Installs),
          Locked(fn, ReplacerCall("Evict") \o Installs)}
    [] fn = "FetchPgImp" ->
         {Locked(fn, <<>>), Locked(fn, Installs),
          Locked(fn, ReplacerCall("Evict") \o Installs)}
    [] fn = "UnpinPgImp" ->
         {Locked(fn, <<>>), Locked(fn, ReplacerCall("SetEvictable"))}
    [] fn = "FlushPgImp" -> {FlushPgSteps}
    [] fn = "FlushAllPgsImp" -> {Locked(fn, Times(FlushPgSteps, PoolSize))}
    [] fn = "DeletePgImp" ->
         {Locked(fn, <<>>), Locked(fn, ReplacerCall("Remove"))}

\* The thread t is at a step of the kind act ...
At(t, act) == pc[t] # <<>> /\ Head(pc[t])[2] = act

\* ... on the latch of the replacer, or else of the pool.
OnReplacer(t) == Head(pc[t])[1] \in ReplacerFunctions

data == <<pages_, page_table_, free_list_, next_page_id_, replacer_, disk, oob,
          last, acquired, released, mon, flush>>

\* The thread t, making no call, enters the function fn.
Call(t, fn) ==
  /\ pc[t] = <<>>
  /\ \E path \in Paths(fn) : pc' = [pc EXCEPT ![t] = path]
  /\ UNCHANGED <<data, latch_, replacer_latch_>>

\* std::scoped_lock<std::mutex> lock(latch_): the thread goes on once the
\* mutex is free; locking a mutex it holds itself never returns.
Lock(t) ==
  /\ At(t, "lock")
  /\ IF OnReplacer(t)
     THEN /\ replacer_latch_ = NoThread
          /\ replacer_latch_' = t
          /\ UNCHANGED latch_
     ELSE /\ latch_ = NoThread
          /\ latch_' = t
          /\ UNCHANGED replacer_latch_
  /\ pc' = [pc EXCEPT ![t] = Tail(@)]
  /\ UNCHANGED data

\* The scoped_lock goes out of scope at the return.
Unlock(t) ==
  /\ At(t, "unlock")
  /\ IF OnReplacer(t)
     THEN replacer_latch_' = NoThread /\ UNCHANGED latch_
     ELSE latch_' = NoThread /\ UNCHANGED replacer_latch_
  /\ pc' = [pc EXCEPT ![t] = Tail(@)]
  /\ UNCHANGED data

\* A function that takes no latch runs and returns.
Run(t) ==
  /\ At(t, "run")
  /\ pc' = [pc EXCEPT ![t] = Tail(@)]
  /\ UNCHANGED <<data, latch_, replacer_latch_>>

LatchNext ==
  \/ \E t \in Threads, fn \in PoolFunctions : Call(t, fn)
  \/ \E t \in Threads : Lock(t)
  \/ \E t \in Threads : Unlock(t)
  \/ \E t \in Threads : Run(t)

\* Fair scheduling: a thread that can go on does, and a thread waiting for a
\* mutex that is free again and again gets it.
LatchFair ==
  \A t \in Threads : WF_vars(Unlock(t)) /\ WF_vars(Run(t)) /\ SF_vars(Lock(t))

LatchSpec == Init /\ [][LatchNext]_vars /\ LatchFair


\* ================================================================ properties
Range(w) == {w[i] : i \in 1..Len(w)}

Tracked(r) == DOMAIN r.preliminary_queue_ \cup DOMAIN r.lru_cache_queue_

Acquires(c) == c.op \in {"NewPage", "FetchPage"} /\ c.page # NoFrame

Evicts(c) == Acquires(c) /\ c.evict_called

\* C1: every frame Evict hands to NewPage/FetchPage has pin_count 0 and is
\* marked evictable when it is chosen; a frame with pin_count > 0 keeps its
\* page, and a page whose page-table frame has pin_count > 0 keeps its
\* page-table entry, in the same frame, over every call.
C1_PinnedNeverEvicted ==
  [][ /\ (last'.evict_called /\ last'.victim # NoFrame) =>
            /\ pages_[last'.victim].pin_count_ = 0
            /\ last'.victim \in replacer_.evictable_
      /\ \A f \in Frames : pages_[f].pin_count_ > 0 =>
            pages_'[f].page_id_ = pages_[f].page_id_
      /\ \A p \in DOMAIN page_table_ : pages_[page_table_[p]].pin_count_ > 0 =>
            /\ p \in DOMAIN page_table_'
            /\ page_table_'[p] = page_table_[p] ]_vars

\* An eviction took place while the other frame stayed pinned in the page table.
C1_Witness ==
  /\ Evicts(last)
  /\ \E p \in DOMAIN page_table_ :
       /\ page_table_[p] # last.victim
       /\ pages_[page_table_[p]].pin_count_ > 0
       /\ pages_[page_table_[p]].page_id_ = p

\* C2 as stated: a dirty frame that is reused through eviction, or deleted by
\* DeletePage, has first been written to disk with its page id and bytes.
C2_DirtyWrittenBeforeReuseOrDelete ==
  [][ \A f \in Frames :
        ( /\ pages_[f].is_dirty_
          /\ \/ (Evicts(last') /\ last'.victim = f)
             \/ (last'.op = "DeletePage" /\ last'.ok /\ last'.page = f) )
        => <<pages_[f].page_id_, pages_[f].data_>> \in Range(last'.writes) ]_vars

\* C2 amended: a dirty frame reused through the eviction path of NewPage or
\* FetchPage is written to disk with its page id and bytes before the reuse;
\* DeletePage of an unpinned dirty page discards the bytes without a WritePage.
C2_DirtyWrittenBeforeReuse ==
  [][ \A f \in Frames : pages_[f].is_dirty_ =>
        /\ (Evicts(last') /\ last'.victim = f) =>
              /\ last'.writes = << <<pages_[f].page_id_, pages_[f].data_>> >>
              /\ disk'[pages_[f].page_id_] = pages_[f].data_
        /\ (last'.op = "DeletePage" /\ last'.ok /\ last'.page = f) =>
              /\ last'.writes = <<>>
              /\ disk' = disk ]_vars

\* A dirty frame holding non-zero bytes was evicted and its page is on disk.
C2_Witness ==
  /\ Evicts(last)
  /\ last.victim_dirty
  /\ Len(last.writes) = 1
  /\ last.writes[1][2] # Zero
  /\ disk[last.evicted_page_id] = last.writes[1][2]

\* C3: WritePage is issued only for a dirty frame chosen by eviction in
\* NewPage/FetchPage, then exactly once with the evicted page id and the
\* bytes the frame held, or inside FlushPage/FlushAllPages; evicting a clean
\* frame issues no WritePage.
C3_WritesOnlyOnDirtyEvictionOrFlush ==
  [][ /\ (last'.writes # <<>> \/ disk' # disk) =>
            \/ last'.op \in {"FlushPage", "FlushAllPages"}
            \/ Evicts(last') /\ pages_[last'.victim].is_dirty_
      /\ Evicts(last') =>
            last'.writes =
              IF pages_[last'.victim].is_dirty_
              THEN << <<pages_[last'.victim].page_id_, pages_[last'.victim].data_>> >>
              ELSE <<>> ]_vars

\* A clean frame was evicted and nothing was written.
C3_Witness ==
  /\ Evicts(last)
  /\ ~last.victim_dirty
  /\ last.writes = <<>>
  /\ last.evicted_page_id \in PageIds


\* The K-th most recent access of a history.
KthMostRecent(h, k) == h[Len(h) - k + 1]

EvictablePreliminary(r) == DOMAIN r.preliminary_queue_ \cap r.evictable_

EvictableMature(r) == DOMAIN r.lru_cache_queue_ \cap r.evictable_

\* The victim LRU-K prescribes in the replacer state r, NoFrame for none.
ExpectedVictim(r) ==
  IF EvictablePreliminary(r) # {}
  THEN CHOOSE f \in EvictablePreliminary(r) :
         \A g \in EvictablePreliminary(r) :
           Head(r.preliminary_queue_[f]) <= Head(r.preliminary_queue_[g])
  ELSE IF EvictableMature(r) # {}
  THEN CHOOSE f \in EvictableMature(r) :
         \A g \in EvictableMature(r) :
           KthMostRecent(r.lru_cache_queue_[f], r.k_)
             <= KthMostRecent(r.lru_cache_queue_[g], r.k_)
  ELSE NoFrame

\* C4: Evict returns the evictable preliminary frame with the smallest
\* earliest timestamp if there is one, else the evictable mature frame whose
\* K-th most recent access is smallest, else none; the frame returned was
\* evictable and is removed from the histories, its partition and the
\* evictable set, every other frame being left as it was.
C4_EvictChoosesLruK ==
  [][ last'.op = "Evict" =>
        LET v == last'.victim IN
        /\ v = ExpectedVictim(replacer_)
        /\ last'.ok <=> v # NoFrame
        /\ v # NoFrame => v \in replacer_.evictable_
        /\ v \notin Tracked(replacer_')
        /\ replacer_'.evictable_ = replacer_.evictable_ \ {v}
        /\ replacer_'.preliminary_queue_ = Erase(replacer_.preliminary_queue_, v)
        /\ replacer_'.lru_cache_queue_ = Erase(replacer_.lru_cache_queue_, v) ]_vars

\* Evict returned a frame although a younger preliminary frame was evictable
\* too and is still there.
C4_Witness ==
  /\ last.op = "Evict"
  /\ last.ok
  /\ \E f \in EvictablePreliminary(replacer_) :
       Head(replacer_.preliminary_queue_[f]) > 0

\* C5: NewPage and the miss path of FetchPage return none exactly when every
\* frame has pin_count > 0; otherwise they return a frame in [0, pool_size)
\* taken from the free list or, the free list being empty, from an Evict that
\* succeeded, and pages_[-1] is never touched.
C5_NoneIffAllPinned ==
  [][ /\ ~oob'
      /\ (last'.op \in {"NewPage", "FetchPage"} /\ ~last'.hit) =>
            /\ last'.page = NoFrame <=> \A f \in Frames : pages_[f].pin_count_ > 0
            /\ last'.page # NoFrame =>
                  /\ last'.page \in Frames
                  /\ IF free_list_ # <<>>
                     THEN /\ last'.page \in Range(free_list_)
                          /\ last'.page \notin Range(free_list_')
                          /\ ~last'.evict_called
                     ELSE /\ last'.evict_called
                          /\ last'.victim = last'.page
                          /\ last'.page \in replacer_.evictable_ ]_vars

\* FetchPage of a page that is not resident came back with none.
C5_Witness ==
  /\ last.op = "FetchPage"
  /\ ~last.hit
  /\ last.page = NoFrame
  /\ \A f \in Frames : pages_[f].pin_count_ > 0

\* C6: pin_count is never negative and never above the successful
\* NewPage/FetchPage calls minus the successful UnpinPage calls of the frame's
\* residency; UnpinPage returns false, changing nothing, when the page is not
\* in the page table or its pin_count is zero, and otherwise takes exactly one
\* from pin_count and leaves the frame evictable exactly when it reached zero.
C6_PinAccounting ==
  [][ /\ \A f \in Frames :
            /\ pages_'[f].pin_count_ >= 0
            /\ pages_'[f].pin_count_ <= acquired'[f] - released'[f]
      /\ last'.op = "UnpinPage" =>
            LET p == last'.page_id IN
            IF p \notin DOMAIN page_table_ \/ pages_[page_table_[p]].pin_count_ = 0
            THEN /\ ~last'.ok
                 /\ pages_' = pages_
                 /\ replacer_'.evictable_ = replacer_.evictable_
            ELSE LET f == page_table_[p] IN
                 /\ last'.ok
                 /\ pages_'[f].pin_count_ = pages_[f].pin_count_ - 1
                 /\ \A g \in Frames \ {f} : pages_'[g] = pages_[g]
                 /\ f \in replacer_'.evictable_ <=> pages_'[f].pin_count_ = 0
                 /\ replacer_'.evictable_ \ {f} = replacer_.evictable_ \ {f} ]_vars

\* An UnpinPage brought a twice-pinned page down to one pin.
C6_Witness ==
  /\ last.op = "UnpinPage"
  /\ last.ok
  /\ pages_[last.page].pin_count_ = 1
  /\ acquired[last.page] = 2
  /\ released[last.page] = 1
  /\ last.page \notin replacer_.evictable_

\* C7: a dirty bit that is set stays set over every call except the eviction
\* of the frame, which writes it back, and the DeletePage of its page; an
\* UnpinPage(p, false) and a FetchPage hit leave it set.
C7_DirtySticky ==
  [][ \A f \in Frames : (pages_[f].is_dirty_ /\ ~pages_'[f].is_dirty_) =>
        \/ /\ Evicts(last')
           /\ last'.victim = f
           /\ <<pages_[f].page_id_, pages_[f].data_>> \in Range(last'.writes)
        \/ /\ last'.op = "DeletePage"
           /\ last'.ok
           /\ last'.page = f ]_vars

\* UnpinPage(p, false) succeeded on a frame that an earlier UnpinPage(p, true)
\* had made dirty, and the frame is still dirty.
C7_Witness ==
  /\ last.op = "UnpinPage"
  /\ last.ok
  /\ ~last.is_dirty
  /\ pages_[last.page].is_dirty_

\* C8: DeletePage(p) returns true and changes nothing when p is not in the
\* page table; returns false when p's frame is pinned; and otherwise removes
\* the frame from the replacer, resets it to INVALID_PAGE_ID, pin_count 0, not
\* dirty, zero bytes, removes p from the page table, appends the frame to the
\* free list and returns true.
C8_DeletePage ==
  [][ last'.op = "DeletePage" =>
        LET p == last'.page_id IN
        IF p \notin DOMAIN page_table_
        THEN /\ last'.ok
             /\ UNCHANGED <<pages_, page_table_, free_list_, next_page_id_, replacer_, disk>>
        ELSE LET f == page_table_[p] IN
             IF pages_[f].pin_count_ > 0
             THEN ~last'.ok
             ELSE /\ last'.ok
                  /\ f \notin Tracked(replacer_')
                  /\ f \notin replacer_'.evictable_
                  /\ pages_'[f] = [page_id_ |-> INVALID_PAGE_ID, pin_count_ |-> 0,
                                   is_dirty_ |-> FALSE, data_ |-> Zero]
                  /\ page_table_' = Erase(page_table_, p)
                  /\ free_list_' = Append(free_list_, f) ]_vars

\* A resident, unpinned page was deleted and its frame is back on the free list.
C8_Witness ==
  /\ last.op = "DeletePage"
  /\ last.ok
  /\ last.page # NoFrame
  /\ free_list_ # <<>>
  /\ free_list_[Len(free_list_)] = last.page
  /\ last.page_id \notin DOMAIN page_table_

\* C9: FlushPage(p) returns false and writes nothing when p is
\* INVALID_PAGE_ID or not in the page table; otherwise it issues exactly one
\* WritePage(p, bytes of p's frame), after which the disk copy of p equals the
\* frame's bytes, returns true, and changes no dirty bit, pin count, page
\* table entry, free list entry or replacer state.
C9_FlushPage ==
  [][ last'.op = "FlushPage" =>
        LET p == last'.page_id IN
        /\ UNCHANGED <<pages_, page_table_, free_list_, replacer_>>
        /\ IF p = INVALID_PAGE_ID \/ p \notin DOMAIN page_table_
           THEN /\ ~last'.ok
                /\ last'.writes = <<>>
                /\ disk' = disk
           ELSE /\ last'.ok
                /\ last'.writes = << <<p, pages_[page_table_[p]].data_>> >>
                /\ disk'[p] = pages_'[page_table_'[p]].data_
                /\ \A q \in PageArgs \ {p} : disk'[q] = disk[q] ]_vars

\* A dirty page was flushed: it is on disk and its frame is still dirty.
C9_Witness ==
  /\ last.op = "FlushPage"
  /\ last.ok
  /\ pages_[last.page].is_dirty_
  /\ pages_[last.page].data_ # Zero
  /\ disk[last.page_id] = pages_[last.page].data_

\* C10: when NewPage has created p, the caller has written B into the frame it
\* got and called UnpinPage(p, true), and p has then been evicted or flushed,
\* the next successful FetchPage(p) returns a frame holding B.
C10_RoundTrip ==
  [][ \A p \in PageIds :
        ( /\ mon[p].st = "persisted"
          /\ last'.op = "FetchPage"
          /\ last'.page_id = p
          /\ last'.page # NoFrame )
        => pages_'[last'.page].data_ = mon[p].B ]_vars

\* The frames that carry the page id p.
FramesOf(p) == {f \in Frames : pages_[f].page_id_ = p}

\* The (page id, frame) pairs of the page table.
Entries(pt) == {<<p, pt[p]>> : p \in DOMAIN pt}

\* C11: the page table holds the entry (p, f) exactly when frame f carries
\* page id p and p is not INVALID_PAGE_ID.
C11_PageTableMatchesFrames ==
  Entries(page_table_) =
    {<<p, f>> \in PageArgs \X Frames : pages_[f].page_id_ = p /\ p # INVALID_PAGE_ID}

\* C12: a valid page id is the page id of at most one frame.
C12_PageIdInOneFrame ==
  \A p \in PageIds : Cardinality(FramesOf(p)) <= 1

\* The frames some page-table entry points to.
Mapped(pt) == {pt[p] : p \in DOMAIN pt}

\* C13: a frame is in the free list exactly when no page-table entry points
\* to it and the replacer tracks it in neither history map; the free list
\* holds no frame twice.
C13_FreeListIffUnmappedUntracked ==
  /\ \A f \in Frames :
       f \in Range(free_list_) <=>
         (f \notin Mapped(page_table_) /\ f \notin Tracked(replacer_))
  /\ \A i, j \in 1..Len(free_list_) : i # j => free_list_[i] # free_list_[j]

\* A deleted frame is back on the free list behind a frame that was never
\* used, while no page is resident.
C13_Witness ==
  /\ last.op = "DeletePage"
  /\ last.ok
  /\ last.page # NoFrame
  /\ Len(free_list_) = PoolSize
  /\ free_list_[Len(free_list_)] = last.page
  /\ last.page \notin Tracked(replacer_)
  /\ DOMAIN page_table_ = {}

\* C16: Size() is the number of tracked frames marked evictable, the
\* evictable set holds tracked frames only, and SetEvictable on a frame that
\* is not tracked changes the clock and nothing else.
C16_SizeCountsTrackedEvictable ==
  [][ /\ replacer_'.evictable_ \subseteq Tracked(replacer_')
      /\ Size(replacer_') = Cardinality(Tracked(replacer_') \cap replacer_'.evictable_)
      /\ (last'.op = "SetEvictable" /\ last'.page \notin Tracked(replacer_)) =>
            replacer_' = [replacer_ EXCEPT !.clock_ = @ + 1] ]_vars

\* SetEvictable(f, true) was just called on a frame that is not tracked while
\* one tracked frame is evictable: Size() is 1.
C16_Witness ==
  /\ last.op = "SetEvictable"
  /\ last.is_dirty
  /\ last.page \notin Tracked(replacer_)
  /\ Size(replacer_) = 1
  /\ Cardinality(Tracked(replacer_)) = 2

\* The history of a tracked frame.
History(r, f) ==
  IF f \in DOMAIN r.lru_cache_queue_ THEN r.lru_cache_queue_[f]
  ELSE r.preliminary_queue_[f]

\* The places (frame, position) at which the replacer r holds a timestamp.
Stamps(r) == UNION {{<<f, i>> : i \in 1..Len(History(r, f))} : f \in Tracked(r)}

\* The last k elements of the sequence h.
LastK(h, k) == IF Len(h) > k THEN SubSeq(h, Len(h) - k + 1, Len(h)) ELSE h

\* C17: no frame is in both partitions; a preliminary history has 1 to K-1
\* timestamps and a mature one exactly K, in increasing order; all recorded
\* timestamps are pairwise distinct; an accepted RecordAccess appends the
\* current timestamp, keeps the last K, and the frame is mature afterwards
\* exactly when that made its history reach K.
C17_HistoryShape ==
  [][ LET r == replacer_' IN
      /\ DOMAIN r.preliminary_queue_ \cap DOMAIN r.lru_cache_queue_ = {}
      /\ \A f \in DOMAIN r.preliminary_queue_ :
            Len(r.preliminary_queue_[f]) \in 1..(r.k_ - 1)
      /\ \A f \in DOMAIN r.lru_cache_queue_ : Len(r.lru_cache_queue_[f]) = r.k_
      /\ \A f \in Tracked(r) : \A i, j \in 1..Len(History(r, f)) :
            i < j => History(r, f)[i] < History(r, f)[j]
      /\ \A x, y \in Stamps(r) :
            x # y => History(r, x[1])[x[2]] # History(r, y[1])[y[2]]
      /\ (last'.op = "RecordAccess" /\ ~RecordAccessRejects(replacer_, last'.page)) =>
            LET f == last'.page
                old == IF f \in Tracked(replacer_) THEN History(replacer_, f) ELSE <<>>
                all == Append(old, replacer_.clock_)
            IN /\ f \in Tracked(r)
               /\ History(r, f) = LastK(all, r.k_)
               /\ f \in DOMAIN r.lru_cache_queue_ <=> Len(all) >= r.k_
               /\ \A g \in Tracked(replacer_) \ {f} :
                     g \in Tracked(r) /\ History(r, g) = History(replacer_, g) ]_vars

\* With K = 2, RecordAccess has just left a frame mature with two timestamps,
\* the older of them later than time 0, while another
\* frame is preliminary with one timestamp.
C17_Witness ==
  /\ last.op = "RecordAccess"
  /\ replacer_.k_ = 2
  /\ last.page \in DOMAIN replacer_.lru_cache_queue_
  /\ Len(replacer_.lru_cache_queue_[last.page]) = 2
  /\ Head(replacer_.lru_cache_queue_[last.page]) > 0
  /\ \E g \in DOMAIN replacer_.preliminary_queue_ :
        Len(replacer_.preliminary_queue_[g]) = 1

\* The frame ids of the replacer r.
InRange(r) == 0..(r.replacer_size_ - 1)

\* C18: RecordAccess with a frame id outside [0, pool_size), negative or too
\* large, changes neither partition nor the evictable set, so no such frame
\* id is ever tracked or returned by Evict.
C18_OutOfRangeRejected ==
  [][ /\ (last'.op = "RecordAccess" /\ last'.page \notin InRange(replacer_)) =>
            /\ replacer_'.preliminary_queue_ = replacer_.preliminary_queue_
            /\ replacer_'.lru_cache_queue_ = replacer_.lru_cache_queue_
            /\ replacer_'.evictable_ = replacer_.evictable_
      /\ Tracked(replacer_') \subseteq InRange(replacer_')
      /\ (last'.op = "Evict" /\ last'.ok) => last'.victim \in InRange(replacer_) ]_vars

\* C19: a successful NewPage returns a frame that carries the new page id,
\* pin_count 1, no dirty bit and zero bytes; a successful FetchPage miss
\* returns a frame that carries the page id, pin_count 1, no dirty bit and
\* bytes ReadPage can deliver; both frames are tracked and not evictable,
\* whether they came from the free list or from an eviction.
C19_FreshFrame ==
  [][ /\ (last'.op = "NewPage" /\ last'.page # NoFrame) =>
            /\ last'.page_id = next_page_id_
            /\ pages_'[last'.page] =
                 [page_id_ |-> last'.page_id, pin_count_ |-> 1,
                  is_dirty_ |-> FALSE, data_ |-> Zero]
            /\ last'.page \in Tracked(replacer_')
            /\ last'.page \notin replacer_'.evictable_
      /\ (last'.op = "FetchPage" /\ ~last'.hit /\ last'.page # NoFrame) =>
            /\ pages_'[last'.page].page_id_ = last'.page_id
            /\ pages_'[last'.page].pin_count_ = 1
            /\ ~pages_'[last'.page].is_dirty_
            /\ pages_'[last'.page].data_ \in ReadPage(disk', last'.page_id)
            /\ last'.page \in Tracked(replacer_')
            /\ last'.page \notin replacer_'.evictable_ ]_vars

\* NewPage got its frame by evicting a dirty page with non-zero bytes.
C19_Witness ==
  /\ last.op = "NewPage"
  /\ Evicts(last)
  /\ last.victim_dirty
  /\ last.writes # <<>>
  /\ last.writes[1][2] # Zero
  /\ pages_[last.page].data_ = Zero
  /\ ~pages_[last.page].is_dirty_

\* The calls that report failure: NewPage or FetchPage returning none,
\* UnpinPage or DeletePage returning false.
Fails(c) ==
  \/ c.op \in {"NewPage", "FetchPage"} /\ c.page = NoFrame
  \/ c.op \in {"UnpinPage", "DeletePage"} /\ ~c.ok

\* C20: a call that reports failure leaves the frames, the page table, the
\* free list, the allocation counter, the replacer and the disk as they were.
C20_FailureChangesNothing ==
  [][ Fails(last') =>
        UNCHANGED <<pages_, page_table_, free_list_, next_page_id_, replacer_,
                    disk>> ]_vars

\* UnpinPage(p, true) returned false on a resident page with pin_count 0, and
\* the page is not dirty.
C20_Witness ==
  /\ last.op = "UnpinPage"
  /\ ~last.ok
  /\ last.is_dirty
  /\ last.page_id \in DOMAIN page_table_
  /\ pages_[page_table_[last.page_id]].pin_count_ = 0
  /\ ~pages_[page_table_[last.page_id]].is_dirty_

\* C14: FlushPage(p), run while other threads call NewPage, FetchPage and
\* DeletePage, passes to WritePage(p, .) the bytes of a frame that holds p
\* when the write is issued.
C14_FlushWritesFrameOfPage ==
  [][ (last'.op = "FlushPage" /\ last'.ok) =>
        pages_[last'.page].page_id_ = last'.page_id ]_vars

\* The thread t can take its next step.
CanStep(t) ==
  /\ pc[t] # <<>>
  /\ At(t, "lock") =>
       IF OnReplacer(t) THEN replacer_latch_ = NoThread ELSE latch_ = NoThread

\* The thread t is about to lock a mutex it holds.
Relocks(t) ==
  /\ At(t, "lock")
  /\ IF OnReplacer(t) THEN replacer_latch_ = t ELSE latch_ = t

====
